---- MODULE Spec2Model ----
(***************************************************************************)
(* Model of the tagger server: the caption routes (generate, batch,        *)
(* add-global-tags, status), the upload routes that create and delete      *)
(* session directories, and the two directories uploads/<id> and           *)
(* results/<id> they share; and the browser client's processing page, as   *)
(* far as it sends requests to these routes.                               *)
(*                                                                         *)
(* Strings whose characters matter (caption text, tag strings) are         *)
(* sequences of one-character strings.  A directory is the sequence of its *)
(* entries in the order readdirSync returns them.                          *)
(***************************************************************************)
EXTENDS Integers, Sequences, FiniteSets, TLC

VARIABLES uploads, results, reqs, resp, client

vars == <<uploads, results, reqs, resp, client>>

-----------------------------------------------------------------------------
(* Bounds of the model                                                     *)

MaxReqs == 1
MaxProcFiles == 7
MaxStatusImages == 50
MaxTagLen == 4
MaxCaptionLen == 2
MaxRaceReqs == 2
MaxDownloadNames == 2
MaxClientFiles == 3
MaxPollCount == 2
MaxBatchFiles == 3
MaxIndexLen == 2
MaxTagRaceReqs == 2
MaxAppFiles == 1
MaxAppReqs == 2

-----------------------------------------------------------------------------
(* Generic helpers                                                         *)

Range(s) == {s[i] : i \in 1..Len(s)}

RECURSIVE StringsUpTo(_, _)
StringsUpTo(A, n) ==
  IF n = 0 THEN {<<>>}
  ELSE LET S == StringsUpTo(A, n - 1)
       IN S \cup {Append(s, c) : s \in {t \in S : Len(t) = n - 1}, c \in A}

-----------------------------------------------------------------------------
(* String.prototype.trim / includes / split                                *)

IsSpace(c) == c = " "

RECURSIVE TrimLeft(_)
TrimLeft(s) ==
  IF s = <<>> THEN s
  ELSE IF IsSpace(Head(s)) THEN TrimLeft(Tail(s)) ELSE s

RECURSIVE TrimRight(_)
TrimRight(s) ==
  IF s = <<>> THEN s
  ELSE IF IsSpace(s[Len(s)]) THEN TrimRight(SubSeq(s, 1, Len(s) - 1)) ELSE s

Trim(s) == TrimRight(TrimLeft(s))

Includes(s, t) ==
  \E i \in 0..(Len(s) - Len(t)) : SubSeq(s, i + 1, i + Len(t)) = t

RECURSIVE SplitAcc(_, _, _)
SplitAcc(s, cur, acc) ==
  IF s = <<>> THEN Append(acc, cur)
  ELSE IF Head(s) = "," THEN SplitAcc(Tail(s), <<>>, Append(acc, cur))
  ELSE SplitAcc(Tail(s), Append(cur, Head(s)), acc)

SplitComma(s) == SplitAcc(s, <<>>, <<>>)

-----------------------------------------------------------------------------
(* File names: [name, ext]; path.extname(file).toLowerCase() and            *)
(* path.parse(file).name.  An entry of an upload directory is a name with   *)
(* the file's contents, [name, ext, data].                                  *)

ToLowerCase(e) ==
  CASE e = "JPG" -> "jpg"
    [] e = "PNG" -> "png"
    [] OTHER -> e

ImageExtensions == {"jpg", "jpeg", "png", "gif", "webp", "bmp"}

IsImageFile(f) == ToLowerCase(f.ext) \in ImageExtensions

\* fs.readdirSync(dir): the names of the entries, without their contents
Names(dir) == [i \in 1..Len(dir) |-> [name |-> dir[i].name, ext |-> dir[i].ext]]

ImageFiles(dir) == SelectSeq(Names(dir), IsImageFile)

BaseName(f) == f.name

-----------------------------------------------------------------------------
(* IEEE-754 double arithmetic of Math.floor((processedImages / totalImages) *)
(* * 100): a double is [m, e], m its 53 significand bits, most significant  *)
(* first, e the exponent of m[1]; every operation rounds to nearest, ties   *)
(* to even.                                                                 *)

MantissaBits == 53

RECURSIVE BitsOf(_)
BitsOf(n) == IF n = 0 THEN <<>> ELSE Append(BitsOf(n \div 2), n % 2)

RECURSIVE ToInt(_)
ToInt(b) == IF b = <<>> THEN 0 ELSE 2 * ToInt(SubSeq(b, 1, Len(b) - 1)) + b[Len(b)]

RECURSIVE Reverse(_)
Reverse(s) == IF s = <<>> THEN <<>> ELSE Append(Reverse(Tail(s)), Head(s))

RECURSIVE FracBits(_, _, _, _)
FracBits(r, t, n, acc) ==
  IF n = 0 THEN [bits |-> acc, rem |-> r]
  ELSE IF 2 * r >= t THEN FracBits(2 * r - t, t, n - 1, Append(acc, 1))
  ELSE FracBits(2 * r, t, n - 1, Append(acc, 0))

RECURSIVE LeadShift(_, _, _)
LeadShift(r, t, k) ==
  IF 2 * r >= t THEN [k |-> k + 1, rem |-> 2 * r - t]
  ELSE LeadShift(2 * r, t, k + 1)

RECURSIVE Increment(_)
Increment(b) ==
  IF b = <<>> THEN <<>>
  ELSE IF b[Len(b)] = 0 THEN Append(SubSeq(b, 1, Len(b) - 1), 1)
  ELSE Append(Increment(SubSeq(b, 1, Len(b) - 1)), 0)

RoundNearestEven(bits, sticky, e) ==
  LET m == SubSeq(bits, 1, MantissaBits)
      guard == bits[MantissaBits + 1]
      up == guard = 1 /\ (sticky \/ m[MantissaBits] = 1)
      inc == Increment(m)
  IN IF ~up THEN [m |-> m, e |-> e]
     ELSE IF inc[1] = 0 THEN [m |-> <<1>> \o SubSeq(inc, 2, MantissaBits), e |-> e + 1]
     ELSE [m |-> inc, e |-> e]

FloatDiv(p, t) ==
  LET ip == p \div t
      hi == BitsOf(ip)
      fb == FracBits(p % t, t, MantissaBits + 1 - Len(hi), hi)
      ls == LeadShift(p, t, 0)
      lb == FracBits(ls.rem, t, MantissaBits, <<1>>)
  IN IF ip > 0 THEN RoundNearestEven(fb.bits, fb.rem # 0, Len(hi) - 1)
     ELSE RoundNearestEven(lb.bits, lb.rem # 0, 0 - ls.k)

RECURSIVE MulSmall(_, _, _, _)
MulSmall(lsb, k, carry, acc) ==
  IF lsb = <<>> THEN BitsOf(carry) \o acc
  ELSE MulSmall(Tail(lsb), k, (Head(lsb) * k + carry) \div 2,
                <<(Head(lsb) * k + carry) % 2>> \o acc)

FloatMulInt(f, k) ==
  LET prod == MulSmall(Reverse(f.m), k, 0, <<>>)
      L == Len(prod)
      sticky == \E i \in (MantissaBits + 2)..L : prod[i] = 1
  IN RoundNearestEven(prod \o <<0>>, sticky, f.e - (MantissaBits - 1) + (L - 1))

MathFloor(f) == IF f.e < 0 THEN 0 ELSE ToInt(SubSeq(f.m, 1, f.e + 1))

Progress(processedImages, totalImages) ==
  IF totalImages > 0
  THEN IF processedImages = 0 THEN 0
       ELSE MathFloor(FloatMulInt(FloatDiv(processedImages, totalImages), 100))
  ELSE 0

-----------------------------------------------------------------------------
(* The file system and the responses                                       *)

\* The response a step sends; NoResp after a step that sends none.
NoResp == [op |-> "none", sid |-> "", code |-> 0]

Reply(op, sid, code) == [op |-> op, sid |-> sid, code |-> code]

EmptyDir == [n \in {} |-> <<>>]

\* fs.existsSync(path.join(__dirname, '../uploads', sessionId))
SessionExists(sid) == sid \in DOMAIN uploads

\* fs.ensureDirSync(resultsDir)
EnsureDirSync(dirs, sid) ==
  IF sid \in DOMAIN dirs THEN dirs ELSE dirs @@ (sid :> EmptyDir)

\* fs.writeFileSync(outputPath, caption) on results/<sid>/<name>.txt
WriteFileSync(dirs, sid, name, content) ==
  [dirs EXCEPT ![sid] = [n \in DOMAIN dirs[sid] \cup {name} |->
                           IF n = name THEN content ELSE dirs[sid][n]]]

\* the .txt files of results/<sid>, by base name
CaptionFiles(sid) == IF sid \in DOMAIN results THEN DOMAIN results[sid] ELSE {}

-----------------------------------------------------------------------------
(* POST /api/upload/single, /multiple and /folder: the routes' session id,  *)
(* multer's fileFilter and diskStorage                                      *)

AllowedTypes ==
  {"image/jpeg", "image/png", "image/gif", "image/webp", "image/bmp", "image/tiff"}

FileFilter(file) == file.mime \in AllowedTypes

\* upload.single('image'), upload.array('images', 100), upload.array('images', 500)
FileLimit(route) ==
  CASE route = "single" -> 1
    [] route = "multiple" -> 100
    [] route = "folder" -> 500

\* the route leaves an absent header absent
SessionHeaderUnset(header, uuid) == header

\* if (!req.headers['x-session-id']) req.headers['x-session-id'] = uuidv4();
\* the value of the header from then on ("" is an absent header)
SessionHeader(header, uuid) == IF header = "" THEN uuid ELSE header

\* const sessionId = req.headers['x-session-id'] || Date.now().toString()
Destination(header, now) == IF header = "" THEN now ELSE header

StoredName(file) == [name |-> file.name, ext |-> file.ext]

StoredFile(file) == [name |-> file.name, ext |-> file.ext, data |-> file.data]

\* the stream multer opens on <sessionDir>/<originalname>: a new entry, or
\* the contents of the entry of that name replaced
WriteUpload(dir, file) ==
  IF StoredName(file) \in Range(Names(dir))
  THEN [i \in 1..Len(dir) |->
          IF Names(dir)[i] = StoredName(file) THEN StoredFile(file) ELSE dir[i]]
  ELSE Append(dir, StoredFile(file))

\* the storage engine, file by file: now[i] is Date.now() when files[i] arrives
RECURSIVE StoreAll(_, _, _, _)
StoreAll(dirs, header, files, now) ==
  IF files = <<>> THEN dirs
  ELSE StoreAll([d \in DOMAIN dirs \cup {Destination(header, Head(now))} |->
                   IF d = Destination(header, Head(now))
                   THEN WriteUpload(IF d \in DOMAIN dirs THEN dirs[d] ELSE <<>>, Head(files))
                   ELSE dirs[d]],
                header, Tail(files), Tail(now))

\* multer unlinks every file the request had stored when it fails
RECURSIVE RemoveAll(_, _, _, _)
RemoveAll(dirs, header, files, now) ==
  IF files = <<>> THEN dirs
  ELSE RemoveAll([dirs EXCEPT ![Destination(header, Head(now))] =
                    SelectSeq(@, LAMBDA e : [name |-> e.name, ext |-> e.ext]
                                              # StoredName(Head(files)))],
                 header, Tail(files), Tail(now))

\* the files multer stored before the fileFilter refused one
RECURSIVE AcceptedPrefix(_)
AcceptedPrefix(files) ==
  IF files = <<>> \/ ~FileFilter(Head(files)) THEN <<>>
  ELSE <<Head(files)>> \o AcceptedPrefix(Tail(files))

\* header is the request's X-Session-ID ("" when absent), uuid the value
\* uuidv4() returns.  A refused file, or one file more than the route takes,
\* aborts the request: multer unlinks the files this request had stored and
\* passes the error to the error middleware (500).
Upload(route, header, uuid, files, now) ==
  LET sessionId == SessionHeader(header, uuid)
      taken == IF Len(files) > FileLimit(route) THEN FileLimit(route) ELSE Len(files)
      stored == AcceptedPrefix(SubSeq(files, 1, taken))
  IN /\ files # <<>>
     /\ Len(now) = Len(files)
     /\ IF Len(stored) = Len(files)
        THEN /\ uploads' = StoreAll(uploads, sessionId, files, now)
             /\ resp' = Reply("upload", sessionId, 200)
        ELSE /\ uploads' = RemoveAll(StoreAll(uploads, sessionId, stored, now),
                                     sessionId, stored, now)
             /\ resp' = Reply("upload", sessionId, 500)
     /\ UNCHANGED <<results, reqs>>

\* DELETE /api/upload/sessions/:sessionId
DeleteSession(sid) ==
  IF ~SessionExists(sid)
  THEN /\ resp' = Reply("delete", sid, 404)
       /\ UNCHANGED <<uploads, results, reqs>>
  ELSE /\ uploads' = [d \in DOMAIN uploads \ {sid} |-> uploads[d]]
       /\ resp' = Reply("delete", sid, 200)
       /\ UNCHANGED <<results, reqs>>

-----------------------------------------------------------------------------
(* POST /api/caption/generate and POST /api/caption/batch                   *)

\* a group one file too large
batchSizePlusOne == 5 + 1

batchSize == 5

concurrencyLimit == 3

GroupSize(kind) == IF kind = "generate" THEN batchSize ELSE concurrencyLimit

\* index of the group (batches[k] / chunks[k], from 0) that holds files[i]
GroupOf(i, size) == (i - 1) \div size

\* batch.map(async (file) => ...) runs every task of the group up to its
\* first await, the metadata read
StartGroup(st, g, size) ==
  [i \in 1..Len(st) |-> IF GroupOf(i, size) = g THEN "meta" ELSE st[i]]

\* captionsAtStart records how many caption files the session had when the
\* request was accepted; the handler never reads it
NewRequest(kind, sid, globalTags, files) ==
  [kind |-> kind, sid |-> sid, tags |-> globalTags, files |-> files,
   captionsAtStart |-> Cardinality(CaptionFiles(sid)),
   st |-> StartGroup([i \in 1..Len(files) |-> "pending"], 0, GroupSize(kind)),
   results |-> <<>>, errors |-> <<>>]

NextRid == CHOOSE r \in 1..(Cardinality(DOMAIN reqs) + 1) : r \notin DOMAIN reqs

\* the existence check left out: a missing directory lists as empty
GenerateNoExistsCheck(sid, apiKey, globalTags) ==
  IF sid = "" \/ apiKey = ""
  THEN /\ resp' = Reply("generate", sid, 400)
       /\ UNCHANGED <<uploads, results, reqs>>
  ELSE LET files == IF SessionExists(sid) THEN ImageFiles(uploads[sid]) ELSE <<>>
       IN /\ results' = EnsureDirSync(results, sid)
          /\ IF Len(files) = 0
             THEN /\ resp' = Reply("generate", sid, 400)
                  /\ UNCHANGED reqs
             ELSE /\ reqs' = reqs @@ (NextRid :> NewRequest("generate", sid, globalTags, files))
                  /\ resp' = NoResp
          /\ UNCHANGED uploads

\* one request per session at a time: a session that is being processed
\* refuses the request
GenerateExclusive(sid, apiKey, globalTags) ==
  IF sid = "" \/ apiKey = ""
  THEN /\ resp' = Reply("generate", sid, 400)
       /\ UNCHANGED <<uploads, results, reqs>>
  ELSE IF ~SessionExists(sid)
  THEN /\ resp' = Reply("generate", sid, 404)
       /\ UNCHANGED <<uploads, results, reqs>>
  ELSE IF \E rid \in DOMAIN reqs : reqs[rid].sid = sid
  THEN /\ resp' = Reply("generate", sid, 409)
       /\ UNCHANGED <<uploads, results, reqs>>
  ELSE LET files == ImageFiles(uploads[sid])
       IN /\ results' = EnsureDirSync(results, sid)
          /\ IF Len(files) = 0
             THEN /\ resp' = Reply("generate", sid, 400)
                  /\ UNCHANGED reqs
             ELSE /\ reqs' = reqs @@ (NextRid :> NewRequest("generate", sid, globalTags, files))
                  /\ resp' = NoResp
          /\ UNCHANGED uploads

\* the files.length === 0 check left out: the loop runs over no batch
GenerateNoEmptyCheck(sid, apiKey, globalTags) ==
  IF sid = "" \/ apiKey = ""
  THEN /\ resp' = Reply("generate", sid, 400)
       /\ UNCHANGED <<uploads, results, reqs>>
  ELSE IF ~SessionExists(sid)
  THEN /\ resp' = Reply("generate", sid, 404)
       /\ UNCHANGED <<uploads, results, reqs>>
  ELSE LET files == ImageFiles(uploads[sid])
       IN /\ results' = EnsureDirSync(results, sid)
          /\ IF Len(files) = 0
             THEN /\ resp' = [op |-> "generate", sid |-> sid, code |-> 200, files |-> files,
                              captionsAtStart |-> Cardinality(CaptionFiles(sid)),
                              results |-> <<>>, errors |-> <<>>]
                  /\ UNCHANGED reqs
             ELSE /\ reqs' = reqs @@ (NextRid :> NewRequest("generate", sid, globalTags, files))
                  /\ resp' = NoResp
          /\ UNCHANGED uploads

Generate(sid, apiKey, globalTags) ==
  IF sid = "" \/ apiKey = ""
  THEN /\ resp' = Reply("generate", sid, 400)
       /\ UNCHANGED <<uploads, results, reqs>>
  ELSE IF ~SessionExists(sid)
  THEN /\ resp' = Reply("generate", sid, 404)
       /\ UNCHANGED <<uploads, results, reqs>>
  ELSE LET files == ImageFiles(uploads[sid])
       IN /\ results' = EnsureDirSync(results, sid)
          /\ IF Len(files) = 0
             THEN /\ resp' = Reply("generate", sid, 400)
                  /\ UNCHANGED reqs
             ELSE /\ reqs' = reqs @@ (NextRid :> NewRequest("generate", sid, globalTags, files))
                  /\ resp' = NoResp
          /\ UNCHANGED uploads

\* the indices count from 1
RECURSIVE PickIndicesFromOne(_, _)
PickIndicesFromOne(files, fileIndices) ==
  IF fileIndices = <<>> THEN <<>>
  ELSE LET k == Head(fileIndices)
           rest == PickIndicesFromOne(files, Tail(fileIndices))
       IN IF k >= 1 /\ k <= Len(files) THEN <<files[k]>> \o rest ELSE rest

\* fileIndices.map(index => files[index]).filter(Boolean); indices count from 0
RECURSIVE PickIndices(_, _)
PickIndices(files, fileIndices) ==
  IF fileIndices = <<>> THEN <<>>
  ELSE LET k == Head(fileIndices)
           rest == PickIndices(files, Tail(fileIndices))
       IN IF k >= 0 /\ k < Len(files) THEN <<files[k + 1]>> \o rest ELSE rest

Batch(sid, apiKey, globalTags, fileIndices) ==
  IF sid = "" \/ apiKey = ""
  THEN /\ resp' = Reply("batch", sid, 400)
       /\ UNCHANGED <<uploads, results, reqs>>
  ELSE IF ~SessionExists(sid)
  THEN /\ resp' = Reply("batch", sid, 404)
       /\ UNCHANGED <<uploads, results, reqs>>
  ELSE LET all == ImageFiles(uploads[sid])
           files == IF Len(fileIndices) > 0 THEN PickIndices(all, fileIndices) ELSE all
       IN /\ results' = EnsureDirSync(results, sid)
          /\ IF Len(files) = 0
             THEN /\ resp' = Reply("batch", sid, 400)
                  /\ UNCHANGED reqs
             ELSE /\ reqs' = reqs @@ (NextRid :> NewRequest("batch", sid, globalTags, files))
                  /\ resp' = NoResp
          /\ UNCHANGED uploads

\* the tags are left out when the completion already contains them
CaptionSkipsPresent(completion, globalTags) ==
  IF Trim(globalTags) # <<>> /\ ~Includes(Trim(completion), Trim(globalTags))
  THEN Trim(completion) \o <<",", " ">> \o Trim(globalTags)
  ELSE Trim(completion)

\* let caption = response.choices[0].message.content.trim(); plus global tags
Caption(completion, globalTags) ==
  IF Trim(globalTags) # <<>>
  THEN Trim(completion) \o <<",", " ">> \o Trim(globalTags)
  ELSE Trim(completion)

GroupDone(st, g, size) ==
  \A i \in 1..Len(st) : GroupOf(i, size) = g => st[i] = "done"

\* Promise.race in place of Promise.all: the next group starts as soon as one
\* task of the current group has settled
SettleAny(rid, r, i) ==
  LET size == GroupSize(r.kind)
      g == GroupOf(i, size)
      last == GroupOf(Len(r.files), size)
      nextPending == g < last /\ \E j \in 1..Len(r.st) :
                       GroupOf(j, size) = g + 1 /\ r.st[j] = "pending"
  IN IF nextPending
     THEN /\ reqs' = [reqs EXCEPT ![rid] = [r EXCEPT !.st = StartGroup(r.st, g + 1, size)]]
          /\ resp' = NoResp
     ELSE IF \E j \in 1..Len(r.st) : r.st[j] # "done"
     THEN /\ reqs' = [reqs EXCEPT ![rid] = r]
          /\ resp' = NoResp
     ELSE /\ reqs' = [k \in DOMAIN reqs \ {rid} |-> reqs[k]]
          /\ resp' = [op |-> r.kind, sid |-> r.sid, code |-> 200, files |-> r.files,
                      captionsAtStart |-> r.captionsAtStart,
                      results |-> r.results, errors |-> r.errors]

\* await Promise.all(batchPromises): once the last task of the group has
\* settled the loop starts the next group, or sends the response after the
\* last one
Settle(rid, r, i) ==
  LET size == GroupSize(r.kind)
      g == GroupOf(i, size)
      last == GroupOf(Len(r.files), size)
  IN IF ~GroupDone(r.st, g, size)
     THEN /\ reqs' = [reqs EXCEPT ![rid] = r]
          /\ resp' = NoResp
     ELSE IF g < last
     THEN /\ reqs' = [reqs EXCEPT ![rid] = [r EXCEPT !.st = StartGroup(r.st, g + 1, size)]]
          /\ resp' = NoResp
     ELSE /\ reqs' = [k \in DOMAIN reqs \ {rid} |-> reqs[k]]
          /\ resp' = [op |-> r.kind, sid |-> r.sid, code |-> 200, files |-> r.files,
                      captionsAtStart |-> r.captionsAtStart,
                      results |-> r.results, errors |-> r.errors]

\* a failure that is not caught per file: the rest of the list is dropped
TaskFailedAborts(r, i) ==
  [r EXCEPT !.st = [j \in 1..Len(r.st) |-> "done"],
            !.errors = Append(@, [file |-> r.files[i]])]

\* catch (err) { errors.push({ file, error }) }
TaskFailed(r, i) ==
  [r EXCEPT !.st[i] = "done", !.errors = Append(@, [file |-> r.files[i]])]

\* results.push({ file, outputPath, caption })
TaskSucceeded(r, i, caption) ==
  [r EXCEPT !.st[i] = "done",
            !.results = Append(@, [file |-> r.files[i], caption |-> caption])]

\* await sharp(imagePath).metadata() settles: it rejects when the image is
\* gone and may reject on any image; on success the task issues the
\* external captioning call
MetadataDone(rid, i, ok) ==
  /\ rid \in DOMAIN reqs
  /\ i \in 1..Len(reqs[rid].files)
  /\ reqs[rid].st[i] = "meta"
  /\ LET r == reqs[rid]
         present == r.sid \in DOMAIN uploads /\ r.files[i] \in Range(Names(uploads[r.sid]))
     IN IF ok /\ present
        THEN /\ reqs' = [reqs EXCEPT ![rid].st[i] = "api"]
             /\ resp' = NoResp
        ELSE Settle(rid, TaskFailed(r, i), i)
  /\ UNCHANGED <<uploads, results>>

\* await openai.chat.completions.create(...) settles: outcome is "apiError",
\* "writeError" (the completion arrived, writeFileSync threw) or "ok";
\* completion is the text of the first completion
ApiDone(rid, i, outcome, completion) ==
  /\ rid \in DOMAIN reqs
  /\ i \in 1..Len(reqs[rid].files)
  /\ reqs[rid].st[i] = "api"
  /\ LET r == reqs[rid]
         name == BaseName(r.files[i])
     IN IF outcome # "ok" \/ r.sid \notin DOMAIN results
        THEN /\ Settle(rid, TaskFailed(r, i), i)
             /\ UNCHANGED results
        ELSE /\ results' = WriteFileSync(results, r.sid, name, Caption(completion, r.tags))
             /\ Settle(rid, TaskSucceeded(r, i, Caption(completion, r.tags)), i)
  /\ UNCHANGED uploads

-----------------------------------------------------------------------------
(* POST /api/caption/add-global-tags                                        *)

RECURSIVE MapTrim(_)
MapTrim(parts) ==
  IF parts = <<>> THEN <<>> ELSE <<Trim(Head(parts))>> \o MapTrim(Tail(parts))

\* the pieces are not trimmed
TagsToAddUntrimmed(globalTags) ==
  SelectSeq(SplitComma(Trim(globalTags)), LAMBDA tag : tag # <<>>)

\* globalTags.trim().split(',').map(tag => tag.trim()).filter(tag => tag !== '')
TagsToAdd(globalTags) ==
  SelectSeq(MapTrim(SplitComma(Trim(globalTags))), LAMBDA tag : tag # <<>>)

\* the containment test left out: every tag is appended
RECURSIVE AppendAlways(_, _)
AppendAlways(caption, tags) ==
  IF tags = <<>> THEN caption
  ELSE AppendAlways(caption \o <<",", " ">> \o Head(tags), Tail(tags))

\* tagsToAdd.forEach(tag => { if (!caption.includes(tag)) caption = `${caption}, ${tag}` })
RECURSIVE AppendMissing(_, _)
AppendMissing(caption, tags) ==
  IF tags = <<>> THEN caption
  ELSE AppendMissing(IF ~Includes(caption, Head(tags))
                     THEN caption \o <<",", " ">> \o Head(tags)
                     ELSE caption,
                     Tail(tags))

UpdatedCaption(content, globalTags) ==
  AppendMissing(Trim(content), TagsToAdd(globalTags))

\* results.push before the write: a file whose write throws is reported as
\* updated as well
AddGlobalTagsReportsFailed(sid, globalTags, failing) ==
  IF sid = "" \/ globalTags = <<>> \/ Trim(globalTags) = <<>>
  THEN /\ resp' = Reply("add-global-tags", sid, 400)
       /\ UNCHANGED <<uploads, results, reqs>>
  ELSE IF sid \notin DOMAIN results
  THEN /\ resp' = Reply("add-global-tags", sid, 404)
       /\ UNCHANGED <<uploads, results, reqs>>
  ELSE IF DOMAIN results[sid] = {}
  THEN /\ resp' = Reply("add-global-tags", sid, 400)
       /\ UNCHANGED <<uploads, results, reqs>>
  ELSE LET done == DOMAIN results[sid] \ failing
       IN /\ failing \subseteq DOMAIN results[sid]
          /\ results' = [results EXCEPT ![sid] =
                           [n \in DOMAIN results[sid] |->
                              IF n \in done
                              THEN UpdatedCaption(results[sid][n], globalTags)
                              ELSE results[sid][n]]]
          /\ resp' = [op |-> "add-global-tags", sid |-> sid, code |-> 200,
                      tags |-> globalTags,
                      results |-> [n \in DOMAIN results[sid] |->
                                     UpdatedCaption(results[sid][n], globalTags)],
                      errors |-> failing]
          /\ UNCHANGED <<uploads, reqs>>

\* failing: the caption files whose read or write throws during this request
AddGlobalTags(sid, globalTags, failing) ==
  IF sid = "" \/ globalTags = <<>> \/ Trim(globalTags) = <<>>
  THEN /\ resp' = Reply("add-global-tags", sid, 400)
       /\ UNCHANGED <<uploads, results, reqs>>
  ELSE IF sid \notin DOMAIN results
  THEN /\ resp' = Reply("add-global-tags", sid, 404)
       /\ UNCHANGED <<uploads, results, reqs>>
  ELSE IF DOMAIN results[sid] = {}
  THEN /\ resp' = Reply("add-global-tags", sid, 400)
       /\ UNCHANGED <<uploads, results, reqs>>
  ELSE LET done == DOMAIN results[sid] \ failing
       IN /\ failing \subseteq DOMAIN results[sid]
          /\ results' = [results EXCEPT ![sid] =
                           [n \in DOMAIN results[sid] |->
                              IF n \in done
                              THEN UpdatedCaption(results[sid][n], globalTags)
                              ELSE results[sid][n]]]
          /\ resp' = [op |-> "add-global-tags", sid |-> sid, code |-> 200,
                      tags |-> globalTags,
                      results |-> [n \in done |->
                                     UpdatedCaption(results[sid][n], globalTags)],
                      errors |-> failing]
          /\ UNCHANGED <<uploads, reqs>>

-----------------------------------------------------------------------------
(* GET /api/caption/status/:sessionId                                       *)

TableMax == MaxStatusImages + 2

\* Progress, computed once for the counts the model reaches
ProgressTable ==
  [c \in 0..TableMax |-> [t \in 0..TableMax |-> Progress(c, t)]]

\* the totalImages > 0 guard left out
IsCompleteNoGuard(processedImages, totalImages) == processedImages >= totalImages

IsComplete(processedImages, totalImages) ==
  processedImages >= totalImages /\ totalImages > 0

StatusText(processedImages, totalImages) ==
  IF processedImages >= totalImages /\ totalImages > 0 THEN "complete" ELSE "in-progress"

\* the count of processed images taken from the request in flight: the
\* files it has settled, failed ones included
StatusResponseFromJobs(sid) ==
  LET totalImages == Len(ImageFiles(uploads[sid]))
      jobs == {rid \in DOMAIN reqs : reqs[rid].sid = sid}
      job == reqs[CHOOSE rid \in jobs : TRUE]
      processedImages == IF jobs = {} THEN Cardinality(CaptionFiles(sid))
                         ELSE Len(job.results) + Len(job.errors)
  IN [op |-> "status", sid |-> sid, code |-> 200,
      totalImages |-> totalImages,
      processedImages |-> processedImages,
      progress |-> ProgressTable[processedImages][totalImages],
      isComplete |-> IsComplete(processedImages, totalImages),
      status |-> StatusText(processedImages, totalImages)]

StatusResponse(sid) ==
  LET totalImages == Len(ImageFiles(uploads[sid]))
      processedImages == Cardinality(CaptionFiles(sid))
  IN [op |-> "status", sid |-> sid, code |-> 200,
      totalImages |-> totalImages,
      processedImages |-> processedImages,
      progress |-> ProgressTable[processedImages][totalImages],
      isComplete |-> IsComplete(processedImages, totalImages),
      status |-> StatusText(processedImages, totalImages)]

Status(sid) ==
  /\ resp' = IF ~SessionExists(sid) THEN Reply("status", sid, 404) ELSE StatusResponse(sid)
  /\ UNCHANGED <<uploads, results, reqs>>

-----------------------------------------------------------------------------
(* GET /api/download/all/:sessionId?format=: the names of the archive's     *)
(* entries, in the order archive.file appends them.  An entry is            *)
(* [dir, file]: dir is the archive root, the folder images/ or captions/,   *)
(* or the folder named after a base name.                                   *)

RootDir == [kind |-> "root", base |-> 0]

Folder(name) == [kind |-> name, base |-> 0]

BaseDir(b) == [kind |-> "base", base |-> b]

Entry(dir, file) == [dir |-> dir, file |-> file]

RECURSIVE Ascending(_)
Ascending(S) ==
  IF S = {} THEN <<>>
  ELSE LET m == CHOOSE x \in S : \A y \in S : x <= y
       IN <<m>> \o Ascending(S \ {m})

\* fs.readdirSync(resultsDir) filtered to .txt, or [] without the directory
CaptionFileList(sid) ==
  LET names == Ascending(CaptionFiles(sid))
  IN [i \in 1..Len(names) |-> [name |-> names[i], ext |-> "txt"]]

\* captionMap[path.parse(file).name] = file
CaptionMap(sid) == [b \in CaptionFiles(sid) |-> [name |-> b, ext |-> "txt"]]

\* the extension filter left out: every file of the directory is an image
SeparateEntriesUnfiltered(sid) ==
  LET imageFiles == Names(uploads[sid])
      captionFiles == CaptionFileList(sid)
  IN [i \in 1..Len(imageFiles) |-> Entry(Folder("images"), imageFiles[i])]
     \o [i \in 1..Len(captionFiles) |-> Entry(Folder("captions"), captionFiles[i])]

SeparateEntries(sid) ==
  LET imageFiles == ImageFiles(uploads[sid])
      captionFiles == CaptionFileList(sid)
  IN [i \in 1..Len(imageFiles) |-> Entry(Folder("images"), imageFiles[i])]
     \o [i \in 1..Len(captionFiles) |-> Entry(Folder("captions"), captionFiles[i])]

\* imageFiles.forEach of the paired format
RECURSIVE PairedFrom(_, _, _)
PairedFrom(imageFiles, captionMap, acc) ==
  IF imageFiles = <<>> THEN acc
  ELSE LET file == Head(imageFiles)
           baseName == BaseName(file)
       IN PairedFrom(Tail(imageFiles), captionMap,
                     IF baseName \in DOMAIN captionMap
                     THEN acc \o <<Entry(BaseDir(baseName), file),
                                   Entry(BaseDir(baseName), captionMap[baseName])>>
                     ELSE Append(acc, Entry(BaseDir(baseName), file)))

\* the loop runs over the caption files: an image is added with its caption
PairedEntriesByCaption(sid) ==
  PairedFrom(SelectSeq(ImageFiles(uploads[sid]),
                       LAMBDA f : BaseName(f) \in CaptionFiles(sid)),
             CaptionMap(sid), <<>>)

PairedEntries(sid) == PairedFrom(ImageFiles(uploads[sid]), CaptionMap(sid), <<>>)

\* the captions are added image by image, as in the paired format
FlatEntriesPerImage(sid) ==
  LET paired == PairedFrom(ImageFiles(uploads[sid]), CaptionMap(sid), <<>>)
  IN [i \in 1..Len(paired) |-> Entry(RootDir, paired[i].file)]

FlatEntries(sid) ==
  LET imageFiles == ImageFiles(uploads[sid])
      captionFiles == CaptionFileList(sid)
  IN [i \in 1..Len(imageFiles) |-> Entry(RootDir, imageFiles[i])]
     \o [i \in 1..Len(captionFiles) |-> Entry(RootDir, captionFiles[i])]

\* const { format = 'separate' } = req.query; a format that is none of the
\* three adds nothing
ArchiveEntries(sid, format) ==
  CASE format = "separate" -> SeparateEntries(sid)
    [] format = "paired" -> PairedEntries(sid)
    [] format = "flat" -> FlatEntries(sid)
    [] OTHER -> <<>>

DownloadAll(sid, format) ==
  /\ resp' = IF ~SessionExists(sid) THEN Reply("download", sid, 404)
             ELSE [op |-> "download", sid |-> sid, code |-> 200, format |-> format,
                   entries |-> ArchiveEntries(sid, format)]
  /\ UNCHANGED <<uploads, results, reqs>>

-----------------------------------------------------------------------------
(* GET /api/download/status/:sessionId.  The size statSync reports stands   *)
(* for the contents it is taken from: the data of an image, the length of   *)
(* a caption.                                                               *)

\* imageFiles.find(img => path.parse(img.name).name === path.parse(file).name)?.name:
\* the first image of that base name, <<>> for undefined
ImageFileOf(imageFiles, caption) ==
  LET same == SelectSeq(imageFiles, LAMBDA img : BaseName(img) = BaseName(caption))
  IN IF same = <<>> THEN <<>> ELSE <<Head(same)>>

DownloadStatusResponse(sid) ==
  LET images == SelectSeq(uploads[sid], IsImageFile)
      imageFiles == ImageFiles(uploads[sid])
      captionFiles == CaptionFileList(sid)
  IN [op |-> "download-status", sid |-> sid, code |-> 200,
      imageCount |-> Len(imageFiles),
      captionCount |-> Len(captionFiles),
      allCaptioned |-> /\ Len(imageFiles) > 0
                       /\ \A i \in 1..Len(imageFiles) : \E j \in 1..Len(captionFiles) :
                            BaseName(captionFiles[j]) = BaseName(imageFiles[i]),
      imageFiles |-> [i \in 1..Len(images) |->
                        [name |-> imageFiles[i], size |-> images[i].data]],
      captionFiles |-> [j \in 1..Len(captionFiles) |->
                          [name |-> captionFiles[j],
                           size |-> Len(results[sid][captionFiles[j].name]),
                           imageFile |-> ImageFileOf(imageFiles, captionFiles[j])]]]

DownloadStatus(sid) ==
  /\ resp' = IF ~SessionExists(sid) THEN Reply("download-status", sid, 404)
             ELSE DownloadStatusResponse(sid)
  /\ UNCHANGED <<uploads, results, reqs>>

-----------------------------------------------------------------------------
(* The browser client: App's session id, processingStatus and resultFiles,  *)
(* the page shown, ProcessingPage's local state, and the effects and the    *)
(* timer that are due.  A request the client sends is one step with the     *)
(* handler it reaches, and the response a step sends is handled by the      *)
(* client in that step.                                                     *)

\* <Routes>: the page the router ends at for a path
Route(path, c) ==
  IF path = "/" /\ c.sessionId # "" /\ c.isProcessing THEN "/processing"
  ELSE IF path = "/" /\ c.sessionId # "" /\ c.captionFiles > 0 THEN "/results"
  ELSE IF path \in {"/processing", "/results"} /\ c.sessionId = "" THEN "/"
  ELSE path

\* App renders with the router at path, after one of its states was set or
\* after navigate(path).  A page that mounts starts from its useState
\* defaults.  Every render of App makes a new checkSessionStatus, hence a
\* new pollProcessingStatus, so ProcessingPage's polling effect is due again:
\* its cleanup clears the interval, and it does nothing more unless
\* processingStatus.isProcessing
Render(c, path) ==
  LET page == Route(path, c)
      mounts == path # c.page \/ page # c.page
      polling == page = "/processing" /\ c.sessionId # "" /\ c.isProcessing
  IN [c EXCEPT !.page = page,
               !.processingStarted = IF mounts THEN FALSE ELSE @,
               !.isCancelling = IF mounts THEN FALSE ELSE @,
               !.pollDue = polling,
               !.interval = IF polling /\ ~mounts THEN @ ELSE FALSE,
               !.pollsSinceTick = IF polling /\ ~mounts THEN @ ELSE 0]

\* UploadPage's start button
HandleStartProcessing ==
  /\ client.page = "/"
  /\ client.apiKey # ""
  /\ client.uploadedFiles > 0
  /\ client' = Render([client EXCEPT !.isProcessing = TRUE,
                                     !.processedFiles = 0,
                                     !.startClicked = TRUE],
                      "/processing")
  /\ resp' = NoResp
  /\ UNCHANGED <<uploads, results, reqs>>

\* startCaptionGeneration after await fetch('/api/caption/generate'): the
\* response sets isProcessing, whatever page is shown by then
OnGenerateResponse(c, r) ==
  IF r.op # "generate" THEN c
  ELSE Render([c EXCEPT !.isProcessing = (r.code = 200)], c.page)

\* the mount effect of ProcessingPage
StartCaptionGeneration ==
  /\ client.page = "/processing"
  /\ ~client.processingStarted
  /\ client.sessionId # ""
  /\ client.apiKey # ""
  /\ Generate(client.sessionId, client.apiKey, client.globalTags)
  /\ client' = OnGenerateResponse([client EXCEPT !.processingStarted = TRUE,
                                                 !.startClicked = FALSE],
                                  resp')

\* checkSessionStatus after await fetch(`/api/caption/status/${sessionId}`);
\* a complete session makes it call fetchResultFiles
OnStatusResponse(c, r) ==
  IF r.code = 404 THEN Render([c EXCEPT !.sessionId = ""], "/")
  ELSE Render([c EXCEPT !.isProcessing = ~r.isComplete /\ r.totalImages > 0,
                        !.processedFiles = r.processedImages,
                        !.fetchDue = @ \/ (r.isComplete /\ r.totalImages > 0)],
              c.page)

\* App's effect on sessionId: checkSessionStatus
CheckSessionStatus ==
  /\ client.statusDue
  /\ client.sessionId # ""
  /\ Status(client.sessionId)
  /\ client' = OnStatusResponse([client EXCEPT !.statusDue = FALSE], resp')

\* pollProcessingStatus after await checkSessionStatus(): processingStatus
\* is the value of the render that made the callback
AfterCheck(closure, c) ==
  IF ~closure.isProcessing /\ closure.processedFiles > 0
  THEN Render([c EXCEPT !.fetchDue = TRUE], "/results")
  ELSE c

\* pollProcessingStatus, called in the client state c; reached tells whether
\* the fetch reached the server (a fetch that fails is caught and logged)
PollProcessingStatus(c, reached) ==
  IF reached
  THEN /\ Status(c.sessionId)
       /\ client' = AfterCheck(client, OnStatusResponse(c, resp'))
  ELSE /\ resp' = NoResp
       /\ client' = c
       /\ UNCHANGED <<uploads, results, reqs>>

\* the polling effect of ProcessingPage runs: the initial check, and
\* setInterval(pollProcessingStatus, 5000)
PollEffect(reached) ==
  /\ client.page = "/processing"
  /\ client.sessionId # ""
  /\ client.isProcessing
  /\ client.pollDue
  /\ PollProcessingStatus([client EXCEPT !.pollDue = FALSE,
                                         !.interval = TRUE,
                                         !.pollsSinceTick =
                                           IF @ < MaxPollCount THEN @ + 1 ELSE @],
                          reached)

\* the interval set by the polling effect fires, five seconds after it was
\* set or after it last fired; an effect that is due runs before any timer
PollTick(reached) ==
  /\ client.page = "/processing"
  /\ client.interval
  /\ ~client.pollDue
  /\ PollProcessingStatus([client EXCEPT !.pollsSinceTick = 1], reached)

\* the files of the session's requests in flight that are not settled yet
Unsettled(sid) ==
  UNION {{<<rid, i>> : i \in {k \in 1..Len(reqs[rid].st) : reqs[rid].st[k] # "done"}} :
           rid \in {r \in DOMAIN reqs : reqs[r].sid = sid}}

\* cancel also drops the session's requests in flight on the server
HandleCancelAborts ==
  /\ client.page = "/processing"
  /\ client.isProcessing
  /\ client.sessionId # ""
  /\ ~client.isCancelling
  /\ client' = Render([client EXCEPT
                         !.isProcessing = FALSE,
                         !.remainingAtCancel =
                           Cardinality(Unsettled(client.sessionId))],
                      "/results")
  /\ reqs' = [rid \in {k \in DOMAIN reqs : reqs[k].sid # client.sessionId} |-> reqs[rid]]
  /\ resp' = NoResp
  /\ UNCHANGED <<uploads, results>>

\* the cancel button, rendered while processingStatus.isProcessing
HandleCancelProcessing ==
  /\ client.page = "/processing"
  /\ client.isProcessing
  /\ client.sessionId # ""
  /\ ~client.isCancelling
  /\ client' = Render([client EXCEPT
                         !.isProcessing = FALSE,
                         !.remainingAtCancel =
                           Cardinality(Unsettled(client.sessionId))],
                      "/results")
  /\ resp' = NoResp
  /\ UNCHANGED <<uploads, results, reqs>>

\* fetchResultFiles, called by checkSessionStatus or by the mount effect of
\* ResultsPage
FetchResultFiles ==
  /\ client.sessionId # ""
  /\ client.fetchDue \/ client.page = "/results"
  /\ DownloadStatus(client.sessionId)
  /\ client' = IF resp'.code = 200
               THEN Render([client EXCEPT !.fetchDue = FALSE,
                                          !.captionFiles = resp'.captionCount],
                           client.page)
               ELSE [client EXCEPT !.fetchDue = FALSE]

\* ResultsPage's handleAddGlobalTags with the text of its input field
HandleAddGlobalTags(newGlobalTags, failing) ==
  /\ client.page = "/results"
  /\ client.sessionId # ""
  /\ newGlobalTags # <<>>
  /\ AddGlobalTags(client.sessionId, newGlobalTags, failing)
  /\ client' = IF resp'.code = 200
               THEN Render([client EXCEPT
                              !.globalTags = newGlobalTags,
                              !.fetchDue = TRUE,
                              !.taggedFiles = DOMAIN resp'.results,
                              !.inFlightAtTagging =
                                {rid \in DOMAIN reqs : reqs[rid].sid = client.sessionId}],
                           client.page)
               ELSE client

\* UploadPage's onDrop: the files go to /api/upload/multiple with the
\* session id the client has, if any
OnDrop(uuid, files, now) ==
  /\ client.page = "/"
  /\ Upload("multiple", client.sessionId, uuid, files, now)
  /\ client' = IF resp'.code = 200
               THEN Render([client EXCEPT
                              !.sessionId = IF @ = "" THEN resp'.sid ELSE @,
                              !.statusDue = @ \/ client.sessionId = "",
                              !.uploadedFiles = @ + Len(files)],
                           client.page)
               ELSE client

\* ProcessingPage's "Back to Upload" button: navigate('/')
BackToUpload ==
  /\ client.page = "/processing"
  /\ client' = Render(client, "/")
  /\ resp' = NoResp
  /\ UNCHANGED <<uploads, results, reqs>>

\* ResultsPage's "Back to Processing" button: navigate('/processing')
BackToProcessing ==
  /\ client.page = "/results"
  /\ client' = Render(client, "/processing")
  /\ resp' = NoResp
  /\ UNCHANGED <<uploads, results, reqs>>

-----------------------------------------------------------------------------
(* Inputs                                                                  *)

SessionIds == {"s1"}

RequestSessionIds == SessionIds \cup {""}

ApiKeys == {"", "sk"}

Alphabet == {"a", "b", ",", " "}

Completions == {<<"a", " ">>}

GlobalTagInputs == {<<>>, <<"b">>}

JpgOne == [name |-> 1, ext |-> "jpg", mime |-> "image/jpeg", data |-> "d1"]
PngOne == [name |-> 1, ext |-> "PNG", mime |-> "image/png", data |-> "d1"]
JpgTwo == [name |-> 2, ext |-> "jpg", mime |-> "image/jpeg", data |-> "d1"]
TxtThree == [name |-> 3, ext |-> "txt", mime |-> "text/plain", data |-> "d1"]
\* another picture under the name 2.jpg
JpgTwoAgain == [name |-> 2, ext |-> "jpg", mime |-> "image/jpeg", data |-> "d2"]

UploadBatches ==
  {<<JpgTwo>>, <<JpgOne, PngOne>>, <<JpgTwo, TxtThree>>, <<JpgTwoAgain>>}

\* Date.now() at the arrival of each file of a request
Clock == {"t1", "t2"}

\* the values uuidv4() can return
FreshIds == {"u1", "u2"}

FileIndexInputs == {<<>>, <<0, 5>>}

Outcomes == {"ok", "apiError", "writeError"}

EmptyFs == [s \in {} |-> <<>>]

\* useState defaults of App and ProcessingPage, with no session id in
\* localStorage.  captionFiles is resultFiles.captionFiles.length; statusDue,
\* pollDue and fetchDue tell that App's effect on sessionId, ProcessingPage's
\* polling effect and a call of fetchResultFiles are yet to run, interval
\* that the polling interval is set.  The other fields are records no handler
\* reads: remainingAtCancel, how many files of the request in flight were
\* unsettled when cancel was pressed; pollsSinceTick, how many status
\* requests the polling has sent since it started or since the interval
\* last fired (counting the one a tick sends); startClicked, that the start
\* button was pressed and no generate request was sent since; taggedFiles
\* and inFlightAtTagging, the caption files the last add-global-tags request
\* reported as updated and the session's requests in flight when it returned
ClientStart ==
  [page |-> "/", sessionId |-> "", apiKey |-> "", globalTags |-> <<>>,
   uploadedFiles |-> 0, isProcessing |-> FALSE, processedFiles |-> 0,
   captionFiles |-> 0,
   processingStarted |-> FALSE, isCancelling |-> FALSE,
   statusDue |-> FALSE, pollDue |-> FALSE, interval |-> FALSE, fetchDue |-> FALSE,
   remainingAtCancel |-> 0, pollsSinceTick |-> 0, startClicked |-> FALSE,
   taggedFiles |-> {}, inFlightAtTagging |-> {}]

-----------------------------------------------------------------------------
(* The server: every route, requests interleaving at their awaits          *)

Init ==
  /\ uploads = EmptyFs
  /\ results = EmptyFs
  /\ reqs = EmptyFs
  /\ resp = NoResp
  /\ client = ClientStart

CanAccept(n) == Cardinality(DOMAIN reqs) < n

Next ==
  \/ \E sid \in SessionIds, files \in UploadBatches :
       Upload("multiple", sid, "u1", files, [i \in 1..Len(files) |-> "t1"])
       /\ UNCHANGED client
  \/ \E sid \in SessionIds : DeleteSession(sid)
       /\ UNCHANGED client
  \/ \E sid \in RequestSessionIds, key \in ApiKeys, tags \in GlobalTagInputs :
       CanAccept(MaxReqs) /\ Generate(sid, key, tags)
       /\ UNCHANGED client
  \/ \E sid \in RequestSessionIds, key \in ApiKeys, tags \in GlobalTagInputs,
        idx \in FileIndexInputs :
       CanAccept(MaxReqs) /\ Batch(sid, key, tags, idx)
       /\ UNCHANGED client
  \/ \E rid \in DOMAIN reqs : \E i \in 1..Len(reqs[rid].files), ok \in BOOLEAN :
       MetadataDone(rid, i, ok)
       /\ UNCHANGED client
  \/ \E rid \in DOMAIN reqs : \E i \in 1..Len(reqs[rid].files), outcome \in Outcomes,
        completion \in Completions :
       ApiDone(rid, i, outcome, completion)
       /\ UNCHANGED client
  \/ \E sid \in RequestSessionIds, tags \in GlobalTagInputs :
       AddGlobalTags(sid, tags, {})
       /\ UNCHANGED client
  \/ \E sid \in SessionIds : Status(sid)
       /\ UNCHANGED client

Spec == Init /\ [][Next]_vars

-----------------------------------------------------------------------------
(* One processing run over a directory of several groups: a session of      *)
(* MaxProcFiles - 1 or MaxProcFiles images is processed once, by generate   *)
(* or by batch, and may be deleted meanwhile; or the session holds no       *)
(* qualifying image at all                                                  *)

ProcDir(n) == [i \in 1..n |-> [name |-> i, ext |-> "jpg", data |-> "d1"]]

\* an upload the fileFilter accepts (image/tiff) and the listings skip
TiffFile == [name |-> 0, ext |-> "tiff", data |-> "d1"]

ProcSessionIds == {"", "s1", "s2"}

InitProc ==
  /\ \/ \E n \in (MaxProcFiles - 1)..MaxProcFiles : uploads = ("s1" :> ProcDir(n))
     \/ uploads = ("s1" :> <<TiffFile>>)
  /\ results = EmptyFs
  /\ reqs = EmptyFs
  /\ resp = NoResp
  /\ client = ClientStart

\* no request is in flight and the session, if it exists, has not been processed
Unprocessed(sid) ==
  /\ reqs = EmptyFs
  /\ sid \in DOMAIN uploads => sid \notin DOMAIN results

NextProc ==
  \/ \E sid \in ProcSessionIds, key \in ApiKeys :
       Unprocessed(sid) /\ Generate(sid, key, <<>>)
       /\ UNCHANGED client
  \/ \E sid \in ProcSessionIds, key \in ApiKeys, idx \in FileIndexInputs :
       Unprocessed(sid) /\ Batch(sid, key, <<>>, idx)
       /\ UNCHANGED client
  \/ \E rid \in DOMAIN reqs : \E i \in 1..Len(reqs[rid].files), ok \in BOOLEAN :
       MetadataDone(rid, i, ok)
       /\ UNCHANGED client
  \/ \E rid \in DOMAIN reqs : \E i \in 1..Len(reqs[rid].files), outcome \in Outcomes,
        completion \in Completions :
       ApiDone(rid, i, outcome, completion)
       /\ UNCHANGED client
  \/ DeleteSession("s1") /\ UNCHANGED client

SpecProc == InitProc /\ [][NextProc]_vars

-----------------------------------------------------------------------------
(* The status route over directory states: a session of n images, of which *)
(* one may be a tiff the listing skips, and m caption files                 *)

InitStatus ==
  /\ \E n \in 0..MaxStatusImages, extra \in BOOLEAN :
       uploads = ("s1" :> (ProcDir(n) \o (IF extra THEN <<TiffFile>> ELSE <<>>)))
  /\ \E m \in 0..(MaxStatusImages + 1), absent \in BOOLEAN :
       /\ m <= Len(ImageFiles(uploads["s1"])) + 1
       /\ absent => m = 0
       /\ results = IF absent THEN EmptyFs ELSE ("s1" :> [k \in 1..m |-> <<"a">>])
  /\ reqs = EmptyFs
  /\ resp = NoResp
  /\ client = ClientStart

NextStatus == \E sid \in {"s1", "s2"} : Status(sid) /\ UNCHANGED client

SpecStatus == InitStatus /\ [][NextStatus]_vars

-----------------------------------------------------------------------------
(* The global-tag updater over caption contents: one run with any tag       *)
(* string, then the same request again                                      *)

TagStrings == StringsUpTo(Alphabet, MaxTagLen)

\* what generate writes: a trimmed completion
InitialCaptions == {Caption(c, <<>>) : c \in StringsUpTo(Alphabet, MaxCaptionLen)}

InitTags ==
  /\ uploads = ("s1" :> ProcDir(2))
  /\ \E c \in InitialCaptions : results = ("s1" :> <<c, <<"a">> >>)
  /\ reqs = EmptyFs
  /\ resp = NoResp
  /\ client = ClientStart

NextTags ==
  \/ \E tags \in TagStrings, failing \in {{}, {2}} :
       resp.op = "none" /\ AddGlobalTags("s1", tags, failing)
       /\ UNCHANGED client
  \/ /\ resp.op = "add-global-tags"
     /\ resp.code = 200
     /\ AddGlobalTags(resp.sid, resp.tags, {})
     /\ UNCHANGED client

SpecTags == InitTags /\ [][NextTags]_vars

-----------------------------------------------------------------------------
(* The caption text: a session of one image is processed once, by generate  *)
(* or by batch, with any global-tags string and any completion              *)

CaptionStrings == StringsUpTo(Alphabet, MaxCaptionLen)

InitCaption ==
  /\ uploads = ("s1" :> ProcDir(1))
  /\ results = EmptyFs
  /\ reqs = EmptyFs
  /\ resp = NoResp
  /\ client = ClientStart

NextCaption ==
  \/ \E tags \in CaptionStrings : Unprocessed("s1") /\ Generate("s1", "sk", tags)
       /\ UNCHANGED client
  \/ \E tags \in CaptionStrings : Unprocessed("s1") /\ Batch("s1", "sk", tags, <<>>)
       /\ UNCHANGED client
  \/ \E rid \in DOMAIN reqs : \E i \in 1..Len(reqs[rid].files) :
       MetadataDone(rid, i, TRUE)
       /\ UNCHANGED client
  \/ \E rid \in DOMAIN reqs : \E i \in 1..Len(reqs[rid].files), outcome \in Outcomes,
        completion \in CaptionStrings :
       ApiDone(rid, i, outcome, completion)
       /\ UNCHANGED client

SpecCaption == InitCaption /\ [][NextCaption]_vars

-----------------------------------------------------------------------------
(* Concurrent generate requests against one session of two images: up to    *)
(* MaxRaceReqs requests are in flight at once, and no task fails            *)

InitRace ==
  /\ uploads = ("s1" :> ProcDir(2))
  /\ results = EmptyFs
  /\ reqs = EmptyFs
  /\ resp = NoResp
  /\ client = ClientStart

NextRace ==
  \/ \E tags \in GlobalTagInputs : CanAccept(MaxRaceReqs) /\ Generate("s1", "sk", tags)
       /\ UNCHANGED client
  \/ \E rid \in DOMAIN reqs : \E i \in 1..Len(reqs[rid].files) :
       MetadataDone(rid, i, TRUE)
       /\ UNCHANGED client
  \/ \E rid \in DOMAIN reqs : \E i \in 1..Len(reqs[rid].files), completion \in Completions :
       ApiDone(rid, i, "ok", completion)
       /\ UNCHANGED client

SpecRace == InitRace /\ [][NextRace]_vars

-----------------------------------------------------------------------------
(* The upload routes: requests with and without an X-Session-ID header,     *)
(* whose files arrive at any clock values, and session deletion             *)

UploadRoutes == {"single", "multiple", "folder"}

UploadHeaders == {"", "s1"}

UploadInputs ==
  {<<JpgOne>>, <<JpgOne, JpgTwo>>, <<JpgTwo, TxtThree>>, <<JpgTwoAgain>>}

\* uuidv4() returns an id no session has
Fresh(uuid) == uuid \notin DOMAIN uploads \cup DOMAIN results

NextUpload ==
  \/ \E route \in UploadRoutes, header \in UploadHeaders, uuid \in FreshIds,
        files \in UploadInputs :
       \E now \in [1..Len(files) -> Clock] :
         Fresh(uuid) /\ Upload(route, header, uuid, files, now) /\ UNCHANGED client
  \/ \E sid \in {"s1"} \cup FreshIds : DeleteSession(sid) /\ UNCHANGED client

SpecUpload == Init /\ [][NextUpload]_vars

-----------------------------------------------------------------------------
(* The download packager over directory states: uploads/s1 holds any of     *)
(* the images n.jpg and n.PNG, n up to MaxDownloadNames, and a tiff;        *)
(* results/s1 is absent or holds any of the captions n.txt, n up to         *)
(* MaxDownloadNames + 1                                                     *)

PngDir(n) == [i \in 1..n |-> [name |-> i, ext |-> "PNG", data |-> "d1"]]

DownloadCandidates ==
  ProcDir(MaxDownloadNames) \o PngDir(MaxDownloadNames) \o <<TiffFile>>

Formats == {"separate", "paired", "flat", "tar"}

InitDownload ==
  /\ \E S \in SUBSET (1..Len(DownloadCandidates)) :
       uploads = ("s1" :> SelectSeq(DownloadCandidates,
                                    LAMBDA f : \E i \in S : DownloadCandidates[i] = f))
  /\ \/ results = EmptyFs
     \/ \E C \in SUBSET (1..(MaxDownloadNames + 1)) :
          results = ("s1" :> [n \in C |-> <<"a">>])
  /\ reqs = EmptyFs
  /\ resp = NoResp
  /\ client = ClientStart

NextDownload ==
  \E sid \in {"s1", "s2"}, format \in Formats : DownloadAll(sid, format) /\ UNCHANGED client

SpecDownload == InitDownload /\ [][NextDownload]_vars

-----------------------------------------------------------------------------
(* One user session in the browser: the images are uploaded and the API     *)
(* key is set; the user starts processing, may cancel, and the pages poll   *)
(* the two status routes while the server works; the session may be         *)
(* deleted meanwhile                                                        *)

InitClient ==
  /\ \E n \in (MaxClientFiles - 1)..MaxClientFiles :
       /\ uploads = ("s1" :> ProcDir(n))
       /\ client = [ClientStart EXCEPT !.sessionId = "s1", !.apiKey = "sk",
                                       !.uploadedFiles = n, !.statusDue = TRUE]
  /\ results = EmptyFs
  /\ reqs = EmptyFs
  /\ resp = NoResp

NextClient ==
  \/ HandleStartProcessing
  \/ StartCaptionGeneration
  \/ CheckSessionStatus
  \/ \E reached \in BOOLEAN : PollEffect(reached)
  \/ \E reached \in BOOLEAN : PollTick(reached)
  \/ HandleCancelProcessing
  \/ FetchResultFiles
  \/ \E rid \in DOMAIN reqs : \E i \in 1..Len(reqs[rid].files), ok \in BOOLEAN :
       MetadataDone(rid, i, ok) /\ client' = OnGenerateResponse(client, resp')
  \/ \E rid \in DOMAIN reqs : \E i \in 1..Len(reqs[rid].files), outcome \in Outcomes,
        completion \in Completions :
       ApiDone(rid, i, outcome, completion) /\ client' = OnGenerateResponse(client, resp')
  \/ DeleteSession("s1") /\ UNCHANGED client

SpecClient == InitClient /\ [][NextClient]_vars

-----------------------------------------------------------------------------
(* The batch route's choice of files: a session of up to MaxBatchFiles      *)
(* images and a tiff is processed once by batch, with any fileIndices of    *)
(* up to MaxIndexLen entries, each an index of the listing, -1, or one past *)
(* the end                                                                  *)

BatchIndices == (0 - 1)..MaxBatchFiles

RECURSIVE SeqsUpTo(_, _)
SeqsUpTo(S, n) ==
  IF n = 0 THEN {<<>>}
  ELSE LET T == SeqsUpTo(S, n - 1)
       IN T \cup {Append(t, x) : t \in {u \in T : Len(u) = n - 1}, x \in S}

BatchIndexInputs == SeqsUpTo(BatchIndices, MaxIndexLen)

InitBatch ==
  /\ \E n \in 0..MaxBatchFiles : uploads = ("s1" :> (<<TiffFile>> \o ProcDir(n)))
  /\ results = EmptyFs
  /\ reqs = EmptyFs
  /\ resp = NoResp
  /\ client = ClientStart

NextBatch ==
  \/ \E idx \in BatchIndexInputs :
       Unprocessed("s1") /\ Batch("s1", "sk", <<>>, idx)
       /\ UNCHANGED client
  \/ \E rid \in DOMAIN reqs : \E i \in 1..Len(reqs[rid].files) :
       MetadataDone(rid, i, TRUE)
       /\ UNCHANGED client
  \/ \E rid \in DOMAIN reqs : \E i \in 1..Len(reqs[rid].files), completion \in Completions :
       ApiDone(rid, i, "ok", completion)
       /\ UNCHANGED client

SpecBatch == InitBatch /\ [][NextBatch]_vars

-----------------------------------------------------------------------------
(* Global tags added while the session is being processed: the user is on   *)
(* the results page of a session of two images; up to MaxTagRaceReqs        *)
(* generate requests for it are in flight at once, with no global tags of   *)
(* their own, and no task fails; then the user adds global tags,            *)
(* and the requests in flight run to completion                             *)

TagRaceInputs == {<<"b">>, <<"a", ",", " ", "b">>}

InitTagRace ==
  /\ uploads = ("s1" :> ProcDir(2))
  /\ results = EmptyFs
  /\ reqs = EmptyFs
  /\ resp = NoResp
  /\ client = [ClientStart EXCEPT !.page = "/results", !.sessionId = "s1",
                                  !.apiKey = "sk", !.uploadedFiles = 2]

NextTagRace ==
  \/ /\ client.taggedFiles = {} /\ CanAccept(MaxTagRaceReqs)
     /\ Generate("s1", "sk", <<>>)
     /\ UNCHANGED client
  \/ \E rid \in DOMAIN reqs : \E i \in 1..Len(reqs[rid].files) :
       MetadataDone(rid, i, TRUE)
       /\ UNCHANGED client
  \/ \E rid \in DOMAIN reqs : \E i \in 1..Len(reqs[rid].files), completion \in Completions :
       ApiDone(rid, i, "ok", completion)
       /\ UNCHANGED client
  \/ \E tags \in TagRaceInputs, failing \in {{}, {1}} :
       client.taggedFiles = {} /\ HandleAddGlobalTags(tags, failing)

SpecTagRace == InitTagRace /\ [][NextTagRace]_vars

-----------------------------------------------------------------------------
(* The app in the browser from its load on: localStorage holds an API key   *)
(* or none, and a session id or none; a stored session has up to            *)
(* MaxAppFiles images, captioned or not, or is gone from the server.  The   *)
(* user drops images, starts processing, cancels and moves between the      *)
(* pages; the effects, the timer and the server's tasks run when they are   *)
(* due, and a fetch that is tried again and again gets through              *)

Captioned(n) == [k \in 1..n |-> <<"a">>]

InitApp ==
  /\ \E key \in ApiKeys, stored \in {"", "s1"} :
       client = [ClientStart EXCEPT !.apiKey = key, !.sessionId = stored,
                                    !.statusDue = stored # ""]
  /\ \/ uploads = EmptyFs /\ results = EmptyFs
     \/ \E n \in 1..MaxAppFiles :
          /\ client.sessionId = "s1"
          /\ uploads = ("s1" :> ProcDir(n))
          /\ results \in {EmptyFs, "s1" :> Captioned(n)}
  /\ reqs = EmptyFs
  /\ resp = NoResp

\* what the user does
UserNext ==
  \/ \E now \in Clock :
       /\ client.uploadedFiles < MaxAppFiles
       /\ Fresh("u1") \/ client.sessionId # ""
       /\ OnDrop("u1", <<JpgOne>>, <<now>>)
  \/ HandleStartProcessing
  \/ HandleCancelProcessing
  \/ BackToUpload
  \/ BackToProcessing

\* what runs by itself
AutoNext ==
  \/ CheckSessionStatus
  \/ CanAccept(MaxAppReqs) /\ StartCaptionGeneration
  \/ \E reached \in BOOLEAN : PollEffect(reached)
  \/ \E reached \in BOOLEAN : PollTick(reached)
  \/ FetchResultFiles
  \/ \E rid \in DOMAIN reqs : \E i \in 1..Len(reqs[rid].files) :
       MetadataDone(rid, i, TRUE) /\ client' = OnGenerateResponse(client, resp')
  \/ \E rid \in DOMAIN reqs : \E i \in 1..Len(reqs[rid].files), completion \in Completions :
       ApiDone(rid, i, "ok", completion) /\ client' = OnGenerateResponse(client, resp')

NextApp == UserNext \/ AutoNext

SpecApp ==
  /\ InitApp
  /\ [][NextApp]_vars
  /\ WF_vars(CheckSessionStatus)
  /\ WF_vars(CanAccept(MaxAppReqs) /\ StartCaptionGeneration)
  /\ WF_vars(PollEffect(TRUE))
  /\ WF_vars(PollTick(TRUE))
  /\ WF_vars(FetchResultFiles)
  /\ WF_vars(\E rid \in DOMAIN reqs : \E i \in 1..Len(reqs[rid].files) :
               MetadataDone(rid, i, TRUE) /\ client' = OnGenerateResponse(client, resp'))
  /\ WF_vars(\E rid \in DOMAIN reqs : \E i \in 1..Len(reqs[rid].files), completion \in Completions :
               ApiDone(rid, i, "ok", completion) /\ client' = OnGenerateResponse(client, resp'))

-----------------------------------------------------------------------------
(* What upload accepts against what the listings count: requests with       *)
(* images, a tiff and a text file, into new sessions and into s1, and the   *)
(* status of each session                                                   *)

\* a picture the browser sends as image/tiff
TiffUpload == [name |-> 4, ext |-> "tiff", mime |-> "image/tiff", data |-> "d1"]

AcceptInputs ==
  {<<JpgOne>>, <<PngOne>>, <<JpgOne, JpgTwo>>, <<TiffUpload>>,
   <<JpgTwo, TiffUpload>>, <<JpgTwo, TxtThree>>}

NextAccept ==
  \/ \E route \in UploadRoutes, header \in UploadHeaders, uuid \in FreshIds,
        files \in AcceptInputs :
       \E now \in [1..Len(files) -> Clock] :
         Fresh(uuid) /\ Upload(route, header, uuid, files, now) /\ UNCHANGED client
  \/ \E sid \in {"s1"} \cup FreshIds : Status(sid) /\ UNCHANGED client

SpecAccept == Init /\ [][NextAccept]_vars

-----------------------------------------------------------------------------
(* Vocabulary of the properties                                            *)

QualifyingExtensions ==
  {"jpg", "jpeg", "png", "gif", "webp", "bmp", "JPG", "JPEG", "PNG", "GIF", "WEBP", "BMP"}

\* imageCount: the qualifying image files of uploads/<sid>
ImageCount(sid) ==
  Cardinality({i \in 1..Len(uploads[sid]) : uploads[sid][i].ext \in QualifyingExtensions})

\* captionCount: the .txt files of results/<sid>, 0 when the directory is absent
CaptionCount(sid) == IF sid \in DOMAIN results THEN Cardinality(DOMAIN results[sid]) ELSE 0

Occurrences(seq, f) == Cardinality({k \in 1..Len(seq) : seq[k].file = f})

Times(files, f) == Cardinality({k \in 1..Len(files) : files[k] = f})

\* the group size the route is documented to use
DocumentedGroupSize(kind) == IF kind = "generate" THEN 5 ELSE 3

InFlightCalls(r) == {i \in 1..Len(r.st) : r.st[i] = "api"}

\* a generate or batch response of a request that passed validation
Processed(r) == r.op \in {"generate", "batch"} /\ r.code \notin {400, 404}

\* s without its leading and trailing blanks
Strip(s) ==
  LET solid == {i \in 1..Len(s) : s[i] # " "}
      lo == CHOOSE i \in solid : \A j \in solid : i <= j
      hi == CHOOSE i \in solid : \A j \in solid : i >= j
  IN IF solid = {} THEN <<>> ELSE SubSeq(s, lo, hi)

\* the pieces of s between its commas, stripped, the empty ones dropped
RECURSIVE PiecesFrom(_, _)
PiecesFrom(s, a) ==
  LET cuts == {i \in 1..Len(s) : s[i] = "," /\ i > a} \cup {Len(s) + 1}
      b == CHOOSE c \in cuts : \A d \in cuts : c <= d
      piece == Strip(SubSeq(s, a + 1, b - 1))
      rest == IF b > Len(s) THEN <<>> ELSE PiecesFrom(s, b)
  IN IF piece = <<>> THEN rest ELSE <<piece>> \o rest

SuppliedTags(s) == PiecesFrom(s, 0)

\* base followed by ", <tag>" for every tag whose index is in keep, in order
RECURSIVE JoinKept(_, _, _, _)
JoinKept(base, T, keep, i) ==
  IF i > Len(T) THEN base
  ELSE JoinKept(IF i \in keep THEN base \o <<",", " ">> \o T[i] ELSE base, T, keep, i + 1)

\* the supplied tags that are no substring of the content at the start
\* (a repeated tag counting once)
MissingAtStart(content, T) ==
  {i \in 1..Len(T) : ~Includes(content, T[i]) /\ \A j \in 1..(i - 1) : T[j] # T[i]}

\* the supplied tags that are no substring of the content at the start nor of
\* a tag supplied before them
MissingSoFar(content, T) ==
  {i \in 1..Len(T) : ~Includes(content, T[i]) /\ \A j \in 1..(i - 1) : ~Includes(T[j], T[i])}

\* the qualifying image files of uploads/<sid>, as names
QualifyingImages(sid) ==
  {[name |-> uploads[sid][i].name, ext |-> uploads[sid][i].ext] :
     i \in {k \in 1..Len(uploads[sid]) : uploads[sid][k].ext \in QualifyingExtensions}}

\* the .txt files of results/<sid>, as names
CaptionNames(sid) ==
  IF sid \in DOMAIN results
  THEN {[name |-> n, ext |-> "txt"] : n \in DOMAIN results[sid]}
  ELSE {}

\* an archive of the given format has been sent
Archive(format) == resp.op = "download" /\ resp.code = 200 /\ resp.format = format

NoDuplicates(seq) == \A i, j \in 1..Len(seq) : seq[i] = seq[j] => i = j

\* the response of GET /api/caption/status/<sid> as a function of the two
\* directories: hasU tells whether uploads/<sid> exists, U is its listing
\* and R the caption files of results/<sid> (none when it is absent)
StatusOf(sid, hasU, U, R) ==
  IF ~hasU THEN [op |-> "status", sid |-> sid, code |-> 404]
  ELSE LET t == Cardinality({i \in 1..Len(U) : U[i].ext \in QualifyingExtensions})
           p == Cardinality(DOMAIN R)
       IN [op |-> "status", sid |-> sid, code |-> 200,
           totalImages |-> t, processedImages |-> p,
           progress |-> ProgressTable[p][t],
           isComplete |-> (p >= t /\ t > 0),
           status |-> IF p >= t /\ t > 0 THEN "complete" ELSE "in-progress"]

\* the counts of GET /api/download/status/<sid> as a function of the two
\* directories
DownloadCountsOf(hasU, U, R) ==
  LET imgs == {i \in 1..Len(U) : U[i].ext \in QualifyingExtensions}
  IN [imageCount |-> Cardinality(imgs),
      captionCount |-> Cardinality(DOMAIN R),
      allCaptioned |-> imgs # {} /\ \A i \in imgs : U[i].name \in DOMAIN R]

\* the qualifying image files of a directory, in the order of its listing
QualifyingListing(dir) ==
  LET at == {i \in 1..Len(dir) : dir[i].ext \in QualifyingExtensions}
      nth(n) == CHOOSE i \in at : Cardinality({j \in at : j < i}) = n - 1
  IN [n \in 1..Cardinality(at) |-> [name |-> dir[nth(n)].name, ext |-> dir[nth(n)].ext]]

\* the entries of listing at the indices of idx that select one (counting
\* from 0), in the order of idx
EntriesAt(listing, idx) ==
  LET hits == {k \in 1..Len(idx) : idx[k] \in 0..(Len(listing) - 1)}
      nth(n) == CHOOSE k \in hits : Cardinality({j \in hits : j < k}) = n - 1
  IN [n \in 1..Cardinality(hits) |-> listing[idx[nth(n)] + 1]]

\* a step that is an add-global-tags request answered 200
TagRun == resp'.op = "add-global-tags" /\ resp'.code = 200

-----------------------------------------------------------------------------
(* Properties                                                              *)

\* C1: after a generate request has run to completion with no per-file
\* failure over the N qualifying images it listed, results/<sid> holds exactly
\* N caption files, one <basename>.txt for each image.
C1_OneCaptionPerImage ==
  (resp.op = "generate" /\ resp.code = 200 /\ resp.errors = <<>>) =>
    /\ CaptionCount(resp.sid) = Len(resp.files)
    /\ \A i \in 1..Len(resp.files) : resp.files[i].name \in CaptionFiles(resp.sid)

\* C2: for a session with N >= 1 qualifying images and no caption files yet,
\* once generate has completed with an empty errors array (the images still
\* being the ones it listed), status returns processedImages = N,
\* progress = 100 and isComplete = true.
C2_StatusCompleteAfterGenerate ==
  (/\ resp.op = "generate" /\ resp.code = 200 /\ resp.errors = <<>>
   /\ resp.captionsAtStart = 0
   /\ SessionExists(resp.sid)
   /\ ImageFiles(uploads[resp.sid]) = resp.files) =>
    LET status == StatusResponse(resp.sid)
    IN /\ status.processedImages = Len(resp.files)
       /\ status.progress = 100
       /\ status.isComplete

\* C3: a per-file failure never aborts a generate or batch request that
\* passed validation: every settled file is in results or in errors, and the
\* response is a 200 in which every file of the list is in exactly one of the
\* two arrays.
C3_FailureNeverAborts ==
  /\ \A rid \in DOMAIN reqs :
       Len(reqs[rid].results) + Len(reqs[rid].errors) =
         Cardinality({i \in 1..Len(reqs[rid].st) : reqs[rid].st[i] = "done"})
  /\ Processed(resp) =>
       /\ resp.code = 200
       /\ Len(resp.results) + Len(resp.errors) = Len(resp.files)
       /\ \A f \in Range(resp.files) :
            Occurrences(resp.results, f) + Occurrences(resp.errors, f) = Times(resp.files, f)

\* a run of two groups answered with a failure in the first group and a
\* success in the second
C3_Witness ==
  /\ Processed(resp)
  /\ Len(resp.files) >= 6
  /\ \E e \in Range(resp.errors), ok \in Range(resp.results) :
       e.file.name <= 3 /\ ok.file.name >= 6

\* C4: the groups (5 files for generate, 3 for batch) are processed strictly
\* one after another: no file of a later group has started while a file of an
\* earlier group has not settled.
C4_GroupsSequential ==
  \A rid \in DOMAIN reqs :
    LET r == reqs[rid]
        size == DocumentedGroupSize(r.kind)
    IN \A i, j \in 1..Len(r.files) :
         ((i - 1) \div size < (j - 1) \div size /\ r.st[j] # "pending") => r.st[i] = "done"

\* the second group of a generate run has started after a failure and a
\* success in the first
C4_Witness ==
  \E rid \in DOMAIN reqs :
    /\ reqs[rid].kind = "generate"
    /\ reqs[rid].st[6] = "api"
    /\ Len(reqs[rid].errors) >= 1
    /\ Len(reqs[rid].results) >= 1

\* C5: at most 5 external calls of one generate request, and at most 3 of one
\* batch request, are in flight at any moment.
C5_InFlightBounded ==
  \A rid \in DOMAIN reqs :
    Cardinality(InFlightCalls(reqs[rid])) <= DocumentedGroupSize(reqs[rid].kind)

\* a full group of calls is in flight
C5_Witness ==
  \E rid \in DOMAIN reqs :
    Cardinality(InFlightCalls(reqs[rid])) = DocumentedGroupSize(reqs[rid].kind)

\* C6: add-global-tags is idempotent: the same request again leaves every
\* caption file the first run updated with the content the first run gave it;
\* and a run whose tags are all contained in a file already leaves that file's
\* (stripped) content as it was.
C6_TagsIdempotent ==
  [][/\ (resp.op = "add-global-tags" /\ resp.code = 200 /\ TagRun
         /\ resp'.tags = resp.tags /\ resp'.sid = resp.sid) =>
          \A n \in DOMAIN resp.results : results'[resp.sid][n] = results[resp.sid][n]
     /\ TagRun =>
          \A n \in DOMAIN resp'.results :
            (\A k \in 1..Len(SuppliedTags(resp'.tags)) :
               Includes(results[resp'.sid][n], SuppliedTags(resp'.tags)[k]))
              => results'[resp'.sid][n] = Strip(results[resp'.sid][n])]_vars

\* a run has appended a tag and has been repeated
C6_Witness ==
  /\ resp.op = "add-global-tags" /\ resp.code = 200
  /\ resp.tags = <<"b", ",", "a">>
  /\ results["s1"][2] = <<"a", ",", " ", "b">>
  /\ ENABLED AddGlobalTags(resp.sid, resp.tags, {})

\* C7 as stated: the tags appended to a file, each as ", <tag>" in supplied
\* order after its stripped content, are exactly the supplied tags that are no
\* substring of the content the file had when the request started.
C7_AppendsTagsMissingAtStart ==
  [][TagRun =>
       \A n \in DOMAIN resp'.results :
         LET T == SuppliedTags(resp'.tags)
             before == results[resp'.sid][n]
         IN results'[resp'.sid][n] =
              JoinKept(Strip(before), T, MissingAtStart(before, T), 1)]_vars

\* C7 as amended: the tags appended are exactly the supplied tags that are a
\* substring neither of the content the file had when the request started nor
\* of a tag supplied before them in the same request.
C7_AppendsTagsMissingSoFar ==
  [][TagRun =>
       \A n \in DOMAIN resp'.results :
         LET T == SuppliedTags(resp'.tags)
             before == results[resp'.sid][n]
         IN results'[resp'.sid][n] =
              JoinKept(Strip(before), T, MissingSoFar(before, T), 1)]_vars

\* tags "a, b" on a file containing "a" gave "a, b"
C7_Witness ==
  /\ resp.op = "add-global-tags" /\ resp.code = 200
  /\ resp.tags = <<"a", ",", " ", "b">>
  /\ 2 \in DOMAIN resp.results
  /\ results["s1"][2] = <<"a", ",", " ", "b">>

\* C8: the progress status returns is floor(100 * captionCount / imageCount)
\* when imageCount > 0 and 0 when imageCount = 0.
C8_ProgressIsFloor ==
  (resp.op = "status" /\ resp.code = 200) =>
    resp.progress = IF ImageCount(resp.sid) > 0
                    THEN (100 * CaptionCount(resp.sid)) \div ImageCount(resp.sid)
                    ELSE 0

\* C9: status reports isComplete = true exactly when captionCount >=
\* imageCount and imageCount > 0, and its status field is 'complete' exactly
\* when isComplete is true and 'in-progress' otherwise.
C9_CompleteIffAllCaptioned ==
  (resp.op = "status" /\ resp.code = 200) =>
    /\ resp.isComplete = (CaptionCount(resp.sid) >= ImageCount(resp.sid)
                          /\ ImageCount(resp.sid) > 0)
    /\ resp.status = IF resp.isComplete THEN "complete" ELSE "in-progress"

\* status has answered complete for a session with more captions than images
C9_Witness ==
  /\ resp.op = "status" /\ resp.code = 200
  /\ resp.isComplete
  /\ resp.processedImages > resp.totalImages

\* C10: a generate or batch request that carries a session id and an API key
\* and whose uploads/<sessionId> does not exist is answered 404, starts no
\* task (so issues no external call) and writes or creates nothing under
\* results/.
C10_MissingSessionIs404 ==
  [][\A sid \in ProcSessionIds \ {""}, key \in ApiKeys \ {""}, idx \in FileIndexInputs :
       (sid \notin DOMAIN uploads
        /\ (Generate(sid, key, <<>>) \/ Batch(sid, key, <<>>, idx)))
         => (resp'.code = 404 /\ reqs' = reqs /\ results' = results)]_vars

\* a request for a missing session has been answered while captions of that
\* session were still on disk
C10_Witness ==
  /\ resp.op \in {"generate", "batch"}
  /\ resp.code = 404
  /\ resp.sid \notin DOMAIN uploads
  /\ resp.sid \in DOMAIN results

\* C11: a generate request that carries a session id and an API key, against
\* an uploads/<sessionId> that exists and holds no qualifying image file, is
\* answered 400 and starts no task, so issues no external call.
C11_EmptySessionIs400 ==
  [][\A sid \in ProcSessionIds \ {""}, key \in ApiKeys \ {""} :
       (sid \in DOMAIN uploads /\ ImageCount(sid) = 0 /\ Generate(sid, key, <<>>))
         => (resp'.op = "generate" /\ resp'.code = 400 /\ reqs' = reqs)]_vars

\* generate has answered 400 after passing the existence check of a session
\* that holds only a tiff
C11_Witness ==
  /\ resp = Reply("generate", "s1", 400)
  /\ "s1" \in DOMAIN uploads
  /\ uploads["s1"] # <<>>
  /\ ImageCount("s1") = 0
  /\ "s1" \in DOMAIN results
  /\ reqs = EmptyFs

\* C12: for every file a generate or batch request captions successfully, the
\* content written to its caption file is the first completion with its
\* leading and trailing blanks removed when the request's global tags are
\* empty or blank, and otherwise that text, then ", ", then the global-tags
\* string without its leading and trailing blanks; the tags are appended
\* whether or not the completion already contains them.
C12_CaptionIsCompletionPlusTags ==
  [][\A rid \in DOMAIN reqs : \A i \in 1..Len(reqs[rid].files), c \in CaptionStrings :
       ApiDone(rid, i, "ok", c) =>
         LET r == reqs[rid]
             written == results'[r.sid][r.files[i].name]
         IN IF Strip(r.tags) = <<>>
            THEN written = Strip(c)
            ELSE written = Strip(c) \o <<",", " ">> \o Strip(r.tags)]_vars

\* a request has finished with no failure and left a caption file that holds
\* the tag "a" twice: once from the completion, once appended
C12_Witness ==
  /\ resp.op \in {"generate", "batch"}
  /\ resp.code = 200
  /\ resp.errors = <<>>
  /\ "s1" \in DOMAIN results
  /\ 1 \in DOMAIN results["s1"]
  /\ results["s1"][1] = <<"a", ",", " ", "a">>

\* C13: generate requests against one session are not mutually excluded: a
\* generate request that arrives while another is in flight on the same
\* session is accepted and starts its own tasks at once, over the same files.
\* (The execution the claim says is reachable is C13_Witness.)
C13_NoMutualExclusion ==
  [][\A tags \in GlobalTagInputs :
       ((\E rid \in DOMAIN reqs : reqs[rid].sid = "s1") /\ Generate("s1", "sk", tags))
         => \E new \in DOMAIN reqs' \ DOMAIN reqs :
              /\ reqs'[new].sid = "s1"
              /\ reqs'[new].files = ImageFiles(uploads["s1"])
              /\ \E i \in 1..Len(reqs'[new].st) : reqs'[new].st[i] = "meta"
              /\ \A rid \in DOMAIN reqs : reqs'[rid] = reqs[rid]]_vars

\* two overlapping requests, one without global tags and one with the tag
\* "b", have both returned with no failure, and 1.txt holds what the former
\* wrote while 2.txt holds what the latter wrote
C13_Witness ==
  /\ reqs = EmptyFs
  /\ resp.op = "generate"
  /\ resp.code = 200
  /\ resp.errors = <<>>
  /\ "s1" \in DOMAIN results
  /\ DOMAIN results["s1"] = {1, 2}
  /\ results["s1"][1] = <<"a">>
  /\ results["s1"][2] = <<"a", ",", " ", "b">>

\* C15: once a qualifying image file exists in uploads/<id>, no operation
\* changes its content, and it ceases to exist only when the whole directory
\* uploads/<id> is deleted: while the directory exists, the file is there with
\* the content it had.
C15_ImagesImmutable ==
  [][\A sid \in DOMAIN uploads : \A i \in 1..Len(uploads[sid]) :
       (uploads[sid][i].ext \in QualifyingExtensions /\ sid \in DOMAIN uploads')
         => uploads[sid][i] \in Range(uploads'[sid])]_vars

\* C16: every successful upload, by any of the three routes, writes all the
\* files of the request into the one directory uploads/<id>, each under its
\* original filename, where <id> is the request's X-Session-ID header when
\* there is one and otherwise the id generated for that request; the
\* response's sessionId is that id, and no other directory is touched.
C16_OneDirectoryPerUpload ==
  [][\A route \in UploadRoutes, header \in UploadHeaders, uuid \in FreshIds,
        files \in UploadInputs :
       \A now \in [1..Len(files) -> Clock] :
         (Fresh(uuid) /\ Upload(route, header, uuid, files, now) /\ resp'.code = 200) =>
           LET id == IF header # "" THEN header ELSE uuid
           IN /\ resp'.sid = id
              /\ DOMAIN uploads' = DOMAIN uploads \cup {id}
              /\ \A i \in 1..Len(files) :
                   \E k \in 1..Len(uploads'[id]) :
                     /\ uploads'[id][k].name = files[i].name
                     /\ uploads'[id][k].ext = files[i].ext
              /\ \A d \in DOMAIN uploads \ {id} : uploads'[d] = uploads[d]]_vars

\* a request without the header has stored its two files in the directory
\* of a generated id and returned that id
C16_Witness ==
  /\ resp.op = "upload"
  /\ resp.code = 200
  /\ resp.sid \in FreshIds
  /\ resp.sid \in DOMAIN uploads
  /\ Len(uploads[resp.sid]) = 2

\* C17: a format=separate archive holds exactly one entry images/<f> for
\* every qualifying image file f of uploads/<id>, exactly one entry
\* captions/<c> for every .txt file c of results/<id>, and no other entry.
C17_SeparateArchive ==
  Archive("separate") =>
    /\ Range(resp.entries) =
         {[dir |-> [kind |-> "images", base |-> 0], file |-> f] : f \in QualifyingImages(resp.sid)}
         \cup {[dir |-> [kind |-> "captions", base |-> 0], file |-> c] : c \in CaptionNames(resp.sid)}
    /\ NoDuplicates(resp.entries)

\* a separate archive of a session that holds a tiff beside its images, and
\* a caption no image matches
C17_Witness ==
  /\ Archive("separate")
  /\ \E i \in 1..Len(uploads[resp.sid]) : uploads[resp.sid][i].ext = "tiff"
  /\ QualifyingImages(resp.sid) # {}
  /\ \E c \in CaptionNames(resp.sid) :
       \A f \in QualifyingImages(resp.sid) : f.name # c.name

C19_FlatArchive ==
  Archive("flat") =>
    /\ Range(resp.entries) =
         {[dir |-> [kind |-> "root", base |-> 0], file |-> f] :
            f \in QualifyingImages(resp.sid) \cup CaptionNames(resp.sid)}
    /\ NoDuplicates(resp.entries)

\* a flat archive of a session with two images of one base name and the
\* caption of that base name
C19_Witness ==
  /\ Archive("flat")
  /\ \E f, g \in QualifyingImages(resp.sid) :
       /\ f # g
       /\ f.name = g.name
       /\ \E c \in CaptionNames(resp.sid) : c.name = f.name

C20_StatusIsStateless ==
  [][\A sid \in {"s1"} :
       LET hasU == sid \in DOMAIN uploads
           U == IF hasU THEN uploads[sid] ELSE <<>>
           R == IF sid \in DOMAIN results THEN results[sid] ELSE EmptyDir
       IN /\ Status(sid) =>
               /\ resp' = StatusOf(sid, hasU, U, R)
               /\ <<uploads', results', reqs'>> = <<uploads, results, reqs>>
          /\ DownloadStatus(sid) =>
               /\ resp'.code = IF hasU THEN 200 ELSE 404
               /\ hasU => /\ [imageCount |-> resp'.imageCount,
                               captionCount |-> resp'.captionCount,
                               allCaptioned |-> resp'.allCaptioned]
                                = DownloadCountsOf(hasU, U, R)
                           /\ {resp'.imageFiles[i].name : i \in 1..Len(resp'.imageFiles)}
                                = QualifyingImages(sid)
                           /\ {resp'.captionFiles[i].name : i \in 1..Len(resp'.captionFiles)}
                                = CaptionNames(sid)
               /\ <<uploads', results', reqs'>> = <<uploads, results, reqs>>]_vars

\* the status route has answered while a request was in flight that had
\* captioned one file and failed on another, and the answer counts the one
\* caption file on disk
C20_Witness ==
  /\ resp.op = "status"
  /\ resp.code = 200
  /\ resp.processedImages = 1
  /\ \E rid \in DOMAIN reqs :
       /\ reqs[rid].sid = resp.sid
       /\ Len(reqs[rid].results) = 1
       /\ Len(reqs[rid].errors) = 1

\* C21: while the processing page is mounted and isProcessing is true, the
\* client sends one status request when the polling starts and after that
\* one only when the five-second interval fires: at no moment has the
\* polling sent more than one status request since it started or since the
\* interval last fired.
C21_PollsEveryInterval == client.pollsSinceTick <= 1

\* C22: a batch request with a non-empty fileIndices processes exactly the
\* entries of the session's qualifying-image listing at the supplied
\* indices, in the supplied order, ignoring the indices that select no
\* file; when none selects a file it is answered 400 and starts nothing.
\* With an empty fileIndices it processes every qualifying image.  The
\* files the request works on are those it reports when it returns.
C22_BatchProcessesSelection ==
  [][/\ \A idx \in BatchIndexInputs :
          Batch("s1", "sk", <<>>, idx) =>
            LET listing == QualifyingListing(uploads["s1"])
                chosen == IF idx = <<>> THEN listing ELSE EntriesAt(listing, idx)
            IN IF chosen = <<>>
               THEN /\ resp'.code = 400
                    /\ reqs' = reqs
                    /\ \A sid \in DOMAIN results' :
                         results'[sid] = IF sid \in DOMAIN results THEN results[sid]
                                         ELSE EmptyDir
               ELSE /\ resp' = NoResp
                    /\ \E rid \in DOMAIN reqs' \ DOMAIN reqs :
                         /\ DOMAIN reqs' = DOMAIN reqs \cup {rid}
                         /\ reqs'[rid].files = chosen
     /\ \A rid \in DOMAIN reqs :
          /\ rid \in DOMAIN reqs' => reqs'[rid].files = reqs[rid].files
          /\ rid \notin DOMAIN reqs' =>
               /\ resp'.op = "batch" /\ resp'.code = 200
               /\ resp'.files = reqs[rid].files
               /\ \A f \in Range(resp'.files) :
                    Occurrences(resp'.results, f) = Times(resp'.files, f)]_vars

\* a batch with fileIndices [2, 0] on three images has returned: it
\* captioned 3.jpg and then 1.jpg, and 2.jpg has no caption
C22_Witness ==
  /\ resp.op = "batch"
  /\ resp.code = 200
  /\ resp.files = <<[name |-> 3, ext |-> "jpg"], [name |-> 1, ext |-> "jpg"]>>
  /\ DOMAIN results["s1"] = {1, 3}

\* C23: whatever uploads, session deletions, generate, batch and
\* add-global-tags requests came before, the progress that the status route
\* returns for an existing session lies between 0 and 100.
C23_ProgressWithinBounds ==
  (resp.op = "status" /\ resp.code = 200) => resp.progress \in 0..100

\* C24: in every reachable state of a session's two directories the two
\* completion checks agree: the status route's isComplete (by the counts) is
\* true exactly when the download status route's allCaptioned (every image
\* has a caption file of its base name) is true.
C24_CompletionChecksAgree ==
  \A sid \in DOMAIN uploads :
    StatusResponse(sid).isComplete <=> DownloadStatusResponse(sid).allCaptioned

\* C25: a generate or batch request that is answered 400 or 404 leaves the
\* file system as it was: uploads/ and results/ hold the same directories
\* and files after the request as before.
C25_RejectedRequestChangesNothing ==
  [][(resp'.op \in {"generate", "batch"} /\ resp'.code \in {400, 404})
       => (uploads' = uploads /\ results' = results)]_vars

\* C26: whatever uploads, generate, batch, add-global-tags requests and
\* session deletions came before, the directory results/<id> exists only if
\* uploads/<id> exists: once a session is deleted none of its caption data
\* remains.
C26_ResultsOnlyWithUploads == DOMAIN results \subseteq DOMAIN uploads

\* C27: an add-global-tags request that returned 200 is not undone by
\* concurrent work: once every request that was in flight on the session
\* when it returned has completed, every caption file it reported as updated
\* still contains every tag it supplied.
C27_TagsSurviveConcurrentWork ==
  (client.taggedFiles # {} /\ client.inFlightAtTagging \cap DOMAIN reqs = {}) =>
    \A f \in client.taggedFiles : \A t \in Range(SuppliedTags(client.globalTags)) :
      Includes(results[client.sessionId][f], t)

\* C27, amended: when an add-global-tags request returns 200, every caption
\* file it reports as updated contains every tag it supplied, and such a
\* file goes on containing each of them until a generate or batch task
\* writes a new caption to that file: no other step takes a tag away.
C27_TagsLastUntilRewritten ==
  [][/\ TagRun =>
          \A f \in DOMAIN resp'.results : \A t \in Range(SuppliedTags(resp'.tags)) :
            Includes(results'[resp'.sid][f], t)
     /\ \A f \in client.taggedFiles : \A t \in Range(SuppliedTags(client.globalTags)) :
          (Includes(results[client.sessionId][f], t)
             /\ ~Includes(results'[client.sessionId][f], t))
            => \E rid \in DOMAIN reqs : \E i \in 1..Len(reqs[rid].files) :
                 /\ reqs[rid].sid = client.sessionId
                 /\ reqs[rid].files[i].name = f
                 /\ reqs[rid].st[i] = "api"
                 /\ rid \in DOMAIN reqs' => reqs'[rid].st[i] = "done"]_vars

\* global tags were added while a request was in flight that had not yet
\* captioned the second image; the request has completed since, and both
\* the file reported then and the one written later are there
C27_Witness ==
  /\ client.taggedFiles = {1}
  /\ client.inFlightAtTagging # {}
  /\ reqs = EmptyFs
  /\ DOMAIN results["s1"] = {1, 2}
  /\ \A t \in Range(SuppliedTags(client.globalTags)) : Includes(results["s1"][1], t)
  /\ ~Includes(results["s1"][2], <<"b">>)

\* C28: the client sends a generate request only as the result of a press
\* of the start button, and one request per press at most: whenever it sends
\* one, the button was pressed and no generate request was sent since.
C28_GenerateOnlyOnClick ==
  [][StartCaptionGeneration => client.startClicked]_vars

\* C29: when the client shows the processing page and the server reports
\* the session complete, the client does not keep showing the processing
\* page for ever: with a user who stays, it goes on to the results page.
C29_CompleteLeadsToResults ==
  (/\ client.page = "/processing"
   /\ client.sessionId \in DOMAIN uploads
   /\ StatusResponse(client.sessionId).totalImages > 0
   /\ StatusResponse(client.sessionId).isComplete)
    ~> (client.page # "/processing")

\* C30: every file of an upload that is accepted into a new session counts
\* as an image of the session: the status of the session reports as many
\* images as the upload stored.
C30_AcceptedFilesQualify ==
  [][\A sid \in FreshIds \cup {"s1"} :
       (resp' = Reply("upload", sid, 200) /\ ~SessionExists(sid))
         => StatusResponse(sid)'.totalImages = Len(uploads'[sid])]_vars

====
